---------------------------- MODULE Spec2Model ----------------------------
(***************************************************************************)
(* Model of src/Camera/api.py: the ContinuousVideoWriter (a rotating file  *)
(* writer guarded by one threading.Lock) and the /upload and               *)
(* /recording/status handlers that share the module-level instance.        *)
(*                                                                         *)
(* Threads: the workers each run one upload_video request; the client      *)
(* calls the other entry points of the writer (recording_status, close and *)
(* the public method start_new_file).  Time is the wall clock in ticks,    *)
(* finer than the seconds of get_new_filename.  The output sink is OpenCV's *)
(* VideoWriter: a constructor that cannot open its file yields an unopened *)
(* handle without raising, and write() on an unopened or released handle   *)
(* drops the frame without raising; VideoCapture on undecodable media      *)
(* yields a capture whose read() returns no frame.  Statements executed    *)
(* while the lock is held are grouped into steps; a step never spans an    *)
(* acquisition of the lock.                                                *)
(***************************************************************************)
EXTENDS Integers, Sequences, FiniteSets, TLC

\* ------------------------------------------------------------------ bounds
MaxFrames == 2      \* frames the uploaded videos hold in total
MaxTime == 2        \* the clock runs 0..MaxTime, in ticks
MaxCalls == 2       \* calls the client makes in total

\* datetime.now() is finer than the "%H%M%S" of the file names: the clock
\* counts ticks, this many to the second
TicksPerSecond == 2

\* max_file_duration_hours (the constructor's parameter), in ticks: the
\* instance is configured with a period the bounded clock can exceed
MaxFileDuration == 2

None == -1

\* two concurrent upload requests, and one thread calling the writer's other
\* entry points
Workers == {1, 2}
Clients == {3}
Threads == Workers \cup Clients
\* the file names: one for each second of the clock
Paths == 0..(MaxTime \div TicksPerSecond)

\* `frame_count % 30 == 0`: the sampling period, scaled to the videos' length
SampleEvery == 2

\* the number of boxes the detector finds on each frame of a video
Dets == {0, 2}

\* What an upload carries that the handler depends on: whether the container
\* decodes, the frame on which the detector raises (0: none; the video then
\* has at least that many frames), and the boxes per frame.  Where the video
\* ends is drawn when cap.read() is reached, and the boxes when a sampled
\* frame is first reached.
Videos ==
    {[decodable |-> FALSE, failAt |-> 0, dets |-> None]} \cup
    {[decodable |-> TRUE, failAt |-> k, dets |-> None] : k \in 0..MaxFrames}

\* no upload (yet, or a request without the 'video' field)
NoVideo == [decodable |-> FALSE, failAt |-> None, dets |-> None]

\* a request before it starts
NoRequest ==
    [video |-> NoVideo, frame_count |-> 0, status |-> 0, detections |-> <<>>,
     detection_count |-> 0, passed |-> 0, temp_file |-> FALSE, cap |-> FALSE]

\* no response of /recording/status yet
NoSnapshot ==
    [current_file |-> None, frame_count |-> None, start_time |-> None,
     is_recording |-> FALSE]

VARIABLES
    now,              \* datetime.now(), in ticks
    lock,             \* self.lock: the thread holding it, or None
    writer,           \* self.writer: index into handles, or None
    current_file,     \* self.current_file: a path, or None
    file_start_time,  \* self.file_start_time, or None
    frame_count,      \* self.frame_count
    handles,          \* the cv2.VideoWriter objects not yet collected
    files,            \* content of each output path: the frames it holds
    pc,               \* each thread's position
    up,               \* each worker's request: the video, the handler's locals
                      \* (frame_count, detections, the temporary file, cap,
                      \* frames passed to write_frame) and the response
    snapshot,         \* the client's last response of /recording/status
    calls             \* calls made by the client

vars == <<now, lock, writer, current_file, file_start_time, frame_count,
          handles, files, pc, up, snapshot, calls>>

writerVars == <<writer, current_file, file_start_time, frame_count, handles,
                files>>

Init ==
    /\ now = 0
    /\ lock = None
    /\ writer = None
    /\ current_file = None
    /\ file_start_time = None
    /\ frame_count = 0
    /\ handles = <<>>
    /\ files = [p \in Paths |-> <<>>]
    /\ pc = [t \in Threads |-> "idle"]
    /\ up = [w \in Workers |-> NoRequest]
    /\ snapshot = [c \in Clients |-> NoSnapshot]
    /\ calls = 0

\* ------------------------------------------------- ContinuousVideoWriter

\* a file name that keeps the full resolution of the clock
get_new_filename_fine == now

\* strftime("%Y%m%d_%H%M%S"): the timestamp cut to the second
get_new_filename == now \div TicksPerSecond

should_rotate_file ==
    IF file_start_time = None THEN TRUE
    ELSE now - file_start_time >= MaxFileDuration

\* `with self.lock:` of a non-reentrant threading.Lock: waits while it is held,
\* by whichever thread
acquire(t) ==
    /\ lock = None
    /\ lock' = t

\* self.writer.release()
release_handle(hs, h) == [hs EXCEPT ![h].st = "released"]

\* A released VideoWriter that self.writer no longer names is garbage.
live_handles(hs) == SelectSeq(hs, LAMBDA h : h.st # "released")

\* cv2.VideoWriter(path, ...): an opened handle, or an unopened one (no raise)
new_handle(path, ok) ==
    [path |-> path, st |-> IF ok THEN "open" ELSE "failed"]

\* line 41
start_new_file_lock(t) ==
    /\ pc[t] = "snf_lock"
    /\ acquire(t)
    /\ pc' = [pc EXCEPT ![t] = "snf_release"]
    /\ UNCHANGED <<now, writerVars, up, snapshot, calls>>

\* start_new_file without `self.writer.release()`
start_new_file_release_forgotten(t) ==
    /\ pc[t] = "snf_release"
    /\ current_file' = get_new_filename
    /\ pc' = [pc EXCEPT ![t] = "snf_open"]
    /\ UNCHANGED <<now, lock, writer, file_start_time, frame_count, handles, files,
                   up, snapshot, calls>>

\* lines 42-46: release the old writer, then name the new file
start_new_file_release(t) ==
    /\ pc[t] = "snf_release"
    /\ handles' = IF writer # None THEN release_handle(handles, writer)
                  ELSE handles
    /\ current_file' = get_new_filename
    /\ pc' = [pc EXCEPT ![t] = "snf_open"]
    /\ UNCHANGED <<now, lock, writer, file_start_time, frame_count, files,
                   up, snapshot, calls>>

\* lines 47-51: stamp, reset the count, open the new writer, leave the `with`
start_new_file_open(t) ==
    /\ pc[t] = "snf_open"
    /\ file_start_time' = now
    /\ frame_count' = 0
    /\ \E ok \in BOOLEAN :
         /\ handles' = Append(live_handles(handles), new_handle(current_file, ok))
         /\ files' = IF ok THEN [files EXCEPT ![current_file] = <<>>] ELSE files
    /\ writer' = Len(live_handles(handles)) + 1
    /\ lock' = None
    /\ pc' = [pc EXCEPT ![t] = IF t \in Workers THEN "wf_write" ELSE "idle"]
    /\ UNCHANGED <<now, current_file, up, snapshot, calls>>

start_new_file(t) ==
    \/ start_new_file_lock(t)
    \/ start_new_file_release(t)
    \/ start_new_file_open(t)

\* `if self.writer is None or self.should_rotate_file()`
needs_new_file == writer = None \/ should_rotate_file

\* lines 54-56: take the lock, then either call start_new_file or go on
write_frame_lock(w) ==
    /\ pc[w] = "wf_lock"
    /\ acquire(w)
    /\ IF needs_new_file
       THEN pc' = [pc EXCEPT ![w] = "snf_lock"]
       ELSE pc' = [pc EXCEPT ![w] = "wf_write"]
    /\ UNCHANGED <<now, writerVars, up, snapshot, calls>>

\* a sink that puts the frame in front of those the file holds
sink_write_in_front(fs, h, frame) ==
    IF handles[h].st = "open"
    THEN [fs EXCEPT ![handles[h].path] = <<frame>> \o @]
    ELSE fs

\* self.writer.write(frame): an opened handle appends the frame to its file;
\* an unopened or released one drops it.  It never raises.
sink_write(fs, h, frame) ==
    IF handles[h].st = "open"
    THEN [fs EXCEPT ![handles[h].path] = Append(@, frame)]
    ELSE fs

\* lines 58-62; with no writer object `self.writer.write` raises, the `with`
\* is left and upload_video answers 500
write_frame_write(w) ==
    /\ pc[w] = "wf_write"
    /\ IF writer # None
       THEN /\ files' = sink_write(files, writer, <<w, up[w].frame_count>>)
            /\ frame_count' = frame_count + 1
            /\ pc' = [pc EXCEPT ![w] = "wf_exit"]
            /\ UNCHANGED <<lock, up>>
       ELSE /\ lock' = None
            /\ up' = [up EXCEPT ![w].status = 500]
            /\ pc' = [pc EXCEPT ![w] = "done"]
            /\ UNCHANGED <<files, frame_count>>
    /\ UNCHANGED <<now, writer, current_file, file_start_time, handles,
                   snapshot, calls>>

\* write_frame returning with the guard still held
write_frame_exit_keeps_lock(w) ==
    /\ pc[w] = "wf_exit"
    /\ pc' = [pc EXCEPT ![w] = "read"]
    /\ UNCHANGED <<now, lock, writerVars, up, snapshot, calls>>

\* leaving `with self.lock:` of write_frame; releasing an unlocked Lock raises
\* RuntimeError, which upload_video turns into a 500
write_frame_exit(w) ==
    /\ pc[w] = "wf_exit"
    /\ IF lock # None
       THEN /\ lock' = None
            /\ pc' = [pc EXCEPT ![w] = "read"]
            /\ up' = up
       ELSE /\ lock' = lock
            /\ pc' = [pc EXCEPT ![w] = "done"]
            /\ up' = [up EXCEPT ![w].status = 500]
    /\ UNCHANGED <<now, writerVars, snapshot, calls>>

write_frame(w) ==
    \/ write_frame_lock(w)
    \/ write_frame_write(w)
    \/ write_frame_exit(w)

\* line 65
close_lock(t) ==
    /\ pc[t] = "close_lock"
    /\ acquire(t)
    /\ pc' = [pc EXCEPT ![t] = "close_body"]
    /\ UNCHANGED <<now, writerVars, up, snapshot, calls>>

\* close() that also zeroes self.frame_count
close_body_resets_count(t) ==
    /\ pc[t] = "close_body"
    /\ IF writer # None
       THEN /\ handles' = live_handles(release_handle(handles, writer))
            /\ writer' = None
            /\ frame_count' = 0
       ELSE /\ handles' = handles
            /\ writer' = writer
            /\ frame_count' = frame_count
    /\ lock' = None
    /\ pc' = [pc EXCEPT ![t] = "idle"]
    /\ UNCHANGED <<now, current_file, file_start_time, files, up, snapshot, calls>>

\* lines 66-69, and leaving the `with`
close_body(t) ==
    /\ pc[t] = "close_body"
    /\ IF writer # None
       THEN /\ handles' = live_handles(release_handle(handles, writer))
            /\ writer' = None
       ELSE /\ handles' = handles
            /\ writer' = writer
    /\ lock' = None
    /\ pc' = [pc EXCEPT ![t] = "idle"]
    /\ UNCHANGED <<now, current_file, file_start_time, frame_count, files,
                   up, snapshot, calls>>

close(t) ==
    \/ close_lock(t)
    \/ close_body(t)

\* ------------------------------------------------------------- handlers

\* /recording/status reading the writer without `with video_writer.lock:`
recording_status_unguarded(t) ==
    /\ pc[t] = "status_lock"
    /\ pc' = [pc EXCEPT ![t] = "status_body"]
    /\ UNCHANGED <<now, lock, writerVars, up, snapshot, calls>>

\* line 151
recording_status_lock(t) ==
    /\ pc[t] = "status_lock"
    /\ acquire(t)
    /\ pc' = [pc EXCEPT ![t] = "status_body"]
    /\ UNCHANGED <<now, writerVars, up, snapshot, calls>>

\* a response whose is_recording also consults should_rotate_file()
recording_status_response_live ==
    [current_file |-> current_file,
     frame_count |-> frame_count,
     start_time |-> file_start_time,
     is_recording |-> writer # None /\ ~should_rotate_file]

\* lines 152-157: the response
recording_status_response ==
    [current_file |-> current_file,
     frame_count |-> frame_count,
     start_time |-> file_start_time,
     is_recording |-> writer # None]

\* lines 152-157, and leaving the `with`
recording_status_body(t) ==
    /\ pc[t] = "status_body"
    /\ snapshot' = [snapshot EXCEPT ![t] = recording_status_response]
    /\ lock' = None
    /\ pc' = [pc EXCEPT ![t] = "idle"]
    /\ UNCHANGED <<now, writerVars, up, calls>>

recording_status(t) ==
    \/ recording_status_lock(t)
    \/ recording_status_body(t)

\* frames of w's video known to exist: those read, and those up to failAt
reserved(w) ==
    IF up[w].frame_count > up[w].video.failAt THEN up[w].frame_count
    ELSE up[w].video.failAt

RECURSIVE sum_reserved(_)
sum_reserved(ws) ==
    IF ws = {} THEN 0
    ELSE LET w == CHOOSE x \in ws : TRUE
         IN  (IF reserved(w) > 0 THEN reserved(w) ELSE 0) + sum_reserved(ws \ {w})

\* the uploads hold MaxFrames frames in total
frames_left == MaxFrames - sum_reserved(Workers)

\* lines 76-88: 400 without the 'video' field; otherwise save and open the upload
upload_video_start(w) ==
    /\ pc[w] = "idle"
    /\ \/ /\ up' = [up EXCEPT ![w].status = 400]
          /\ pc' = [pc EXCEPT ![w] = "done"]
       \/ \E v \in Videos :
            /\ v.failAt <= frames_left
            /\ up' = [up EXCEPT ![w].video = v, ![w].temp_file = TRUE,
                                ![w].cap = TRUE]
            /\ pc' = [pc EXCEPT ![w] = "read"]
    /\ UNCHANGED <<now, lock, writerVars, snapshot, calls>>

\* lines 91-93 and 129-140: cap.read() yields no frame (an undecodable
\* container yields none at all): the loop ends and the request returns 200
upload_video_finish(w) ==
    /\ pc[w] = "read"
    /\ up[w].frame_count >= up[w].video.failAt
    /\ up' = [up EXCEPT ![w].cap = FALSE, ![w].temp_file = FALSE,
                        ![w].detection_count = Len(up[w].detections),
                        ![w].status = 200]
    /\ pc' = [pc EXCEPT ![w] = "done"]
    /\ UNCHANGED <<now, lock, writerVars, snapshot, calls>>

\* the sampling test on a 0-based frame index
sampled_zero_based(n) == (n - 1) % SampleEvery = 0

\* `if frame_count % 30 == 0`
sampled(n) == n % SampleEvery = 0

\* lines 100-125: one entry for each box of a sampled frame
record_detections(detections, n, d) ==
    IF sampled(n) THEN detections \o [i \in 1..d |-> n] ELSE detections

\* a frame loop that hands only the sampled frames to write_frame
upload_video_frame_writes_sampled(w) ==
    /\ pc[w] = "read"
    /\ up[w].video.decodable
    /\ up[w].frame_count < up[w].video.failAt \/ frames_left > 0
    /\ LET n == up[w].frame_count + 1
       IN  IF up[w].video.failAt = n
           THEN /\ up' = [up EXCEPT ![w].frame_count = n, ![w].status = 500]
                /\ pc' = [pc EXCEPT ![w] = "done"]
           ELSE /\ \E d \in (IF sampled(n) /\ up[w].video.dets = None
                              THEN Dets ELSE {up[w].video.dets}) :
                     up' = [up EXCEPT
                              ![w].frame_count = n,
                              ![w].video.dets = d,
                              ![w].detections = record_detections(@, n, d),
                              ![w].passed = IF sampled(n) THEN @ + 1 ELSE @]
                /\ pc' = [pc EXCEPT ![w] = IF sampled(n) THEN "wf_lock" ELSE "read"]
    /\ UNCHANGED <<now, lock, writerVars, snapshot, calls>>

\* lines 91-127 and 142-143: cap.read() yields a frame, `results = model(frame)`
\* and the annotation; an exception of the detector ends the request with a
\* 500, otherwise the boxes of a sampled frame are recorded and the annotated
\* frame goes to video_writer.write_frame
upload_video_frame(w) ==
    /\ pc[w] = "read"
    /\ up[w].video.decodable
    /\ up[w].frame_count < up[w].video.failAt \/ frames_left > 0
    /\ LET n == up[w].frame_count + 1
       IN  IF up[w].video.failAt = n
           THEN /\ up' = [up EXCEPT ![w].frame_count = n, ![w].status = 500]
                /\ pc' = [pc EXCEPT ![w] = "done"]
           ELSE /\ \E d \in (IF sampled(n) /\ up[w].video.dets = None
                              THEN Dets ELSE {up[w].video.dets}) :
                     up' = [up EXCEPT
                              ![w].frame_count = n,
                              ![w].video.dets = d,
                              ![w].detections = record_detections(@, n, d),
                              ![w].passed = @ + 1]
                /\ pc' = [pc EXCEPT ![w] = "wf_lock"]
    /\ UNCHANGED <<now, lock, writerVars, snapshot, calls>>

upload_video(w) ==
    \/ upload_video_start(w)
    \/ upload_video_frame(w)
    \/ upload_video_finish(w)
    \/ write_frame(w)
    \/ start_new_file(w)

\* The client thread enters one of the writer's other entry points.
client_call(c) ==
    /\ pc[c] = "idle"
    /\ calls < MaxCalls
    /\ calls' = calls + 1
    /\ \E op \in {"status_lock", "close_lock", "snf_lock"} :
         pc' = [pc EXCEPT ![c] = op]
    /\ UNCHANGED <<now, lock, writerVars, up, snapshot>>

client(c) ==
    \/ client_call(c)
    \/ recording_status(c)
    \/ close(c)
    \/ start_new_file(c)

\* ---------------------------------------------------------- environment

Tick ==
    /\ now < MaxTime
    /\ now' = now + 1
    /\ UNCHANGED <<lock, writerVars, pc, up, snapshot, calls>>

Next ==
    \/ \E w \in Workers : upload_video(w)
    \/ \E c \in Clients : client(c)
    \/ Tick

Spec == Init /\ [][Next]_vars

\* A thread that can run does run: every request and every call that is
\* under way keeps taking its steps (nothing forces the client to call).
FairSpec ==
    /\ Spec
    /\ \A w \in Workers : WF_vars(upload_video(w))
    /\ \A c \in Clients : WF_vars(recording_status(c) \/ close(c) \/ start_new_file(c))



\* ---------------------------------------------------------------- claims

\* t is inside a call that takes the guard: write_frame, close, status, or
\* start_new_file
InGuardedCall(t) ==
    pc[t] \in {"wf_lock", "wf_write", "wf_exit", "snf_lock", "snf_release",
               "snf_open", "close_lock", "close_body", "status_lock", "status_body"}

Range(seq) == {seq[i] : i \in DOMAIN seq}

\* the frames of worker w that some output file holds
FramesWritten(w) == {f \in UNION {Range(files[p]) : p \in Paths} : f[1] = w}

\* the next step of thread t
thread_step(t) ==
    IF t \in Workers THEN upload_video(t)
    ELSE recording_status(t) \/ close(t) \/ start_new_file(t)

\* C1: no call to write_frame, close or status (nor the rotation a
\* write_frame performs inside its critical section) blocks forever: a thread
\* inside such a call can take its next step, or it waits for the guard while
\* another thread holds it that can take its next step.
C1_NoCallBlocksForever ==
    \A t \in Threads :
        InGuardedCall(t) =>
            \/ ENABLED thread_step(t)
            \/ \E u \in Threads \ {t} : lock = u /\ ENABLED thread_step(u)

\* C2: a write_frame that finds no open session, or the rotation predicate
\* satisfied, opens a new session and appends its frame to it: it reaches its
\* return with is_recording true and frame_count 1.
C2_WriteFrameOpensSession ==
    \A w \in Workers :
        (pc[w] = "snf_lock") ~> (pc[w] = "wf_exit" /\ writer # None /\ frame_count = 1)

\* The other half of C2 (it holds): a write_frame that finds a session open
\* and not due appends to it, leaving current_file and file_start_time alone
\* and raising frame_count by exactly 1.
C2_AppendLeavesSession ==
    [][\A w \in Workers :
          (pc[w] = "wf_write" /\ pc'[w] = "wf_exit") =>
              /\ current_file' = current_file
              /\ file_start_time' = file_start_time
              /\ writer' = writer
              /\ frame_count' = frame_count + 1]_vars

\* the output could not be opened: the current handle is an unopened one
SinkRefuses == writer # None /\ handles[writer].st = "failed"

\* C3: no write is lost: every frame an upload hands to write_frame ends up
\* in an output file (so N uploads of K frames leave N x K frames written),
\* unless the sink refuses it.
C3_NoLostWrite ==
    \A w \in Workers :
        (pc[w] = "wf_lock")
            ~> (<<w, up[w].frame_count>> \in FramesWritten(w) \/ SinkRefuses)

\* C4: write_frame calls that span more than the rotation duration produce
\* another output file: a write_frame arriving at a session that is due leads
\* to a session that is not due.
C4_RotationProducesNewFile ==
    \A w \in Workers :
        (pc[w] = "snf_lock" /\ writer # None /\ should_rotate_file)
            ~> (writer # None /\ ~should_rotate_file)

\* a step that opens a session (lines 47-50), and one that appends (lines 61-62)
OpensSession == \E t \in Threads : pc[t] = "snf_open" /\ pc'[t] # "snf_open"
AppendsFrame == \E w \in Workers : pc[w] = "wf_write" /\ pc'[w] = "wf_exit"

\* C5: frame_count is set to 0 by every step that opens a session and by no
\* other step, is raised by exactly one by every append of write_frame, and
\* is left alone by every other step (close and status among them): it never
\* decreases while a session stays open.
C5_FrameCountSteps ==
    [][frame_count' = IF OpensSession THEN 0
                      ELSE IF AppendsFrame THEN frame_count + 1
                      ELSE frame_count]_vars

\* a second session holds one frame, counted from 0 again, while the file of
\* an earlier session still holds that session's frames
C5_Witness ==
    /\ writer # None
    /\ handles[writer].st = "open"
    /\ frame_count = 1
    /\ Len(files[handles[writer].path]) = 1
    /\ \E p \in Paths : p # handles[writer].path /\ files[p] # <<>>

\* C6: every VideoWriter that has not been released is the one self.writer
\* names: at most one session is open, and no unreleased handle is leaked.
C6_AtMostOneSession ==
    /\ \A i \in DOMAIN handles : handles[i].st # "released" => writer = i
    /\ Cardinality({i \in DOMAIN handles : handles[i].st # "released"}) <= 1

\* in the middle of a rotation, the old handle released and the new one not
\* yet opened, while an upload waits for the guard to write
C6_Witness ==
    /\ \E t \in Threads : pc[t] = "snf_open"
    /\ writer # None
    /\ handles[writer].st = "released"
    /\ \E w \in Workers : pc[w] = "wf_lock"

\* C7: an upload whose frame k makes the detector raise, and whose frame k-1
\* has been handed to write_frame, is answered with a 500, and none of its
\* frames from k on is in any file.
C7_DetectorFailureGives500 ==
    \A w \in Workers :
        (pc[w] = "wf_lock" /\ up[w].video.failAt = up[w].frame_count + 1)
            ~> (/\ up[w].status = 500
                /\ \A f \in FramesWritten(w) : f[2] < up[w].video.failAt)

\* C8: an upload whose media does not decode is answered with a 400.
C8_UndecodableGives400 ==
    \A w \in Workers :
        (pc[w] = "done" /\ up[w].video # NoVideo /\ ~up[w].video.decodable)
            => up[w].status = 400

\* C9: a write_frame that is about to return normally has written its frame:
\* the frame is in the current file, and frame_count counts only frames that
\* the file holds.
C9_ReturnsOnlyIfWritten ==
    \A w \in Workers :
        pc[w] = "wf_exit" =>
            /\ writer # None
            /\ <<w, up[w].frame_count>> \in Range(files[handles[writer].path])
            /\ frame_count = Len(files[handles[writer].path])

\* C10: the writer stays usable: a write_frame never goes on to write through
\* a handle that failed to open or was released (it opens a new session
\* first), and the guard is never held by a thread that waits for it itself.
C10_WriterRecoverable ==
    /\ \A w \in Workers :
         pc[w] = "wf_write" => writer # None /\ handles[writer].st = "open"
    /\ \A t \in Threads : lock = t => pc[t] # "snf_lock"

\* a step of close() past its acquisition
ClosesSession == \E t \in Threads : pc[t] = "close_body" /\ pc'[t] # "close_body"

\* The part of C11 about close() alone (it holds): after close() no session
\* is open, and a close() that finds no session open changes nothing of the
\* writer's state.
C11_CloseIdempotent ==
    [][ClosesSession =>
          /\ writer' = None
          /\ writer = None => UNCHANGED writerVars
          /\ UNCHANGED <<current_file, file_start_time, frame_count, files>>]_vars

\* C11: close() leaves no session open, a further close() changes nothing,
\* and a write_frame after close() opens a fresh session with frame_count
\* reset to 0 before it appends: a write_frame that found the session closed
\* goes on into start_new_file.
C11_WriteAfterCloseOpensSession ==
    \A w \in Workers :
        (pc[w] = "snf_lock" /\ writer = None /\ file_start_time # None)
            => ENABLED start_new_file_lock(w)

\* a step of write_frame, start_new_file or close() past its acquisition
WriterStep ==
    \E t \in Threads :
        /\ pc[t] \in {"wf_write", "snf_release", "snf_open", "close_body"}
        /\ pc'[t] # pc[t]

\* a step in which /recording/status answers
StatusReturns(c) == pc[c] = "status_body" /\ pc'[c] # "status_body"

\* C12: status() answers with the writer's four values and leaves every field
\* of the writer unchanged; and a snapshot that status() returned stays what
\* status() returns as long as no write_frame, start_new_file or close() acts,
\* however far the clock advances: two calls with none of those in between
\* return identical snapshots.
C12_StatusLeavesState ==
    [][\A c \in Clients :
          /\ StatusReturns(c) =>
                /\ UNCHANGED writerVars
                /\ snapshot'[c] = recording_status_response
          /\ (snapshot[c] = recording_status_response /\ ~WriterStep) =>
                snapshot'[c] = recording_status_response']_vars

\* status() has answered for a session that holds a frame, and the clock has
\* since passed the session's maximum duration: the snapshot still is what
\* status() returns
C12_Witness ==
    \E c \in Clients :
        /\ pc[c] = "idle"
        /\ snapshot[c].is_recording
        /\ snapshot[c].frame_count >= 1
        /\ snapshot[c] = recording_status_response
        /\ should_rotate_file

\* t is between the acquisition and the release of the guard in write_frame
\* (its call of start_new_file included), start_new_file or close()
Midway(t) ==
    \/ pc[t] \in {"wf_write", "wf_exit", "snf_release", "snf_open", "close_body"}
    \/ t \in Workers /\ pc[t] = "snf_lock"

OutsideWriter(w) == pc[w] \in {"idle", "read", "done"}

\* C14: no upload worker holds the writer guard while it runs detection or
\* annotation, so a worker that stays in the detector keeps no other worker
\* from the guard, and every other worker that is at its own detection can
\* go on with it.
C14_DetectionOutsideGuard ==
    \A w \in Workers :
        OutsideWriter(w) =>
            /\ lock # w
            /\ \A u \in Workers \ {w} :
                 pc[u] = "read" =>
                     ENABLED (upload_video_frame(u) \/ upload_video_finish(u))

\* a worker is back at its detection after a write_frame, while another
\* worker holds the guard and writes
C14_Witness ==
    \E w \in Workers :
        /\ pc[w] = "read"
        /\ up[w].passed >= 1
        /\ \E u \in Workers \ {w} : pc[u] = "wf_write" /\ lock = u

\* the entries a video of n frames with d boxes on every frame must yield:
\* d entries for each frame whose 1-based index is a multiple of the period
RECURSIVE ExpectedDetections(_, _)
ExpectedDetections(n, d) ==
    IF n = 0 THEN <<>>
    ELSE ExpectedDetections(n - 1, d)
             \o (IF n % SampleEvery = 0 THEN [i \in 1..d |-> n] ELSE <<>>)

\* C15: in the result of a successfully processed upload the detection list
\* holds an entry for a detection of frame i exactly if i is a multiple of
\* the sampling period, one entry per detection of such a frame, in frame
\* order, and detection_count is the length of that list.
C15_SamplesEveryPeriod ==
    \A w \in Workers :
        (pc[w] = "done" /\ up[w].status = 200) =>
            /\ up[w].detections =
                   ExpectedDetections(up[w].frame_count,
                       IF up[w].video.dets = None THEN 0 ELSE up[w].video.dets)
            /\ up[w].detection_count = Len(up[w].detections)

\* an upload of at least one sampling period, with boxes on every frame, has
\* been answered: its list holds the entries of the sampled frame only
C15_Witness ==
    \E w \in Workers :
        /\ pc[w] = "done"
        /\ up[w].status = 200
        /\ up[w].frame_count >= SampleEvery
        /\ up[w].video.dets = 2
        /\ up[w].detection_count = 2

\* C16: every frame an upload has read, sampled or not and with or without
\* detections, has been passed to write_frame, each once and in turn (the
\* number of calls equals the number of frames read), as long as the request
\* has not failed; on normal completion that number is the processed frame
\* count the response reports.
C16_EveryFramePassedOnce ==
    \A w \in Workers :
        up[w].status \in {0, 200} =>
            /\ up[w].passed = up[w].frame_count
            /\ pc[w] \in {"wf_lock", "wf_write", "wf_exit", "snf_lock"} =>
                   up[w].frame_count >= 1

\* an upload of two frames without detections, one of them unsampled, has
\* completed normally
C16_Witness ==
    \E w \in Workers :
        /\ pc[w] = "done"
        /\ up[w].status = 200
        /\ up[w].frame_count = 2
        /\ up[w].passed = 2
        /\ up[w].detections = <<>>

\* The part of C17 about the clock alone (it holds): a step in which time
\* passes changes nothing of the writer's state, however long the session has
\* been open.
C17_TimeAloneChangesNothing ==
    [][now' # now => UNCHANGED <<writerVars, lock>>]_vars

\* the open session has reached its maximum duration
SessionOverdue ==
    /\ writer # None
    /\ file_start_time # None
    /\ now - file_start_time >= MaxFileDuration

\* C17: rotation is decided only inside write_frame, so a session stays open
\* past its maximum duration until the next write_frame arrives, and that
\* write_frame is the one that rotates: having found the session overdue, it
\* goes on into start_new_file.
C17_NextWriteRotates ==
    \A w \in Workers :
        (pc[w] = "snf_lock" /\ SessionOverdue) => ENABLED start_new_file_lock(w)

NamesFile(t) == pc[t] = "snf_release" /\ pc'[t] = "snf_open"
OpensFile(t) == pc[t] = "snf_open" /\ pc'[t] # "snf_open"

\* C19: the path of a new session is the second of the clock at which it is
\* named and nothing else (no counter tells sessions of one second apart), so
\* sessions named within the same second get the same path and sessions of
\* different seconds different ones; and opening a session on a path starts
\* that file anew, so that the frames an earlier session of the same second
\* left there are gone.
C19_PathIsSecondOfOpening ==
    [][\A t \in Threads :
          /\ NamesFile(t) => current_file' = now \div TicksPerSecond
          /\ OpensFile(t) =>
                /\ handles'[writer'].path = current_file
                /\ handles'[writer'].st = "open" => files'[current_file] = <<>>
                /\ \A p \in Paths \ {current_file} : files'[p] = files[p]]_vars

\* a session is being opened at a later instant of the second in which the
\* session before it was opened: it has been given the path of that session,
\* whose file holds a frame
C19_Witness ==
    \E t \in Threads :
        /\ pc[t] = "snf_open"
        /\ writer # None
        /\ handles[writer].st = "released"
        /\ handles[writer].path = current_file
        /\ files[current_file] # <<>>
        /\ file_start_time # None
        /\ file_start_time < now

\* C20: when the handler has answered a request that reached the decoding
\* step, with a 200 or a 500, the temporary file of the upload has been
\* deleted and cap.release() has been called.
C20_TempFileDeleted ==
    \A w \in Workers :
        (pc[w] = "done" /\ up[w].video # NoVideo /\ up[w].status \in {200, 500})
            => ~up[w].temp_file /\ ~up[w].cap

==========================================================================
